---- MODULE Spec2Model ----
(***************************************************************************)
(* BMI calculator (src/main.py): the four helper functions, the two static *)
(* tables and the Streamlit form that drives them.                         *)
(*                                                                         *)
(* Numbers.  The program computes with floats; the model computes the same *)
(* quantities exactly, as scaled integers:                                 *)
(*   pounds     in ticks of 1/LBS_SCALE lb (the form's step, 0.5 lb)       *)
(*   height_m   in units of 10^-4 metre (0.0254 m = 254 units)             *)
(*   weight_kg  in units of 1/(LBS_SCALE * 10^8) kg, as a numeral of       *)
(*              several digits (it exceeds the model checker's integers)   *)
(*   bmi        in units of 1/BMI_SCALE (25.0 = 250000, 24.9999 = 249999)  *)
(* On the whole modelled input grid the exact quotient is never a rounding *)
(* tie, so exact round-half-even and Python's round() of the float agree.  *)
(***************************************************************************)
EXTENDS Integers, Sequences, FiniteSets, TLC

VARIABLES feet, inches, lbs,      \* arguments / form widgets
          pc,                     \* position in the script or pipeline
          h_m, w_kg,              \* to_metric's results
          bmi, cat,               \* calculate_bmi's and bmi_category's results
          low_w, high_w,          \* healthy_weight_range_lbs's results
          info,                   \* INSIGHTS entry shown
          err,                    \* exception that ended the run, or "none"
          bmi2, cat2              \* second probe of the classifier

vars == <<feet, inches, lbs, pc, h_m, w_kg, bmi, cat, low_w, high_w, info,
          err, bmi2, cat2>>

-----------------------------------------------------------------------------
(* Scales of the fixed-point representation *)

LBS_SCALE == 2
BMI_SCALE == 10000

(* Bounds of the model *)

MaxLbs == 400
MaxEngineFeet == 8
MaxEngineLbs == 12
MaxProbe == 64

(* Limits of the form's widgets *)

MinFeet == 3
MaxFeet == 8
MaxInches == 11
MinLbs == 1
DefaultFeet == 5
DefaultInches == 7
DefaultLbs == 165

-----------------------------------------------------------------------------
(* Exact arithmetic on numerals: sequences of base-Base digits, most       *)
(* significant first                                                       *)

Base == 10000

Max(a, b) == IF a >= b THEN a ELSE b

Front(s) == SubSeq(s, 1, Len(s) - 1)

RECURSIVE BigFromInt(_)
BigFromInt(n) ==
    IF n = 0 THEN <<>> ELSE Append(BigFromInt(n \div Base), n % Base)

RECURSIVE BigToInt(_)
BigToInt(a) ==
    IF a = <<>> THEN 0 ELSE Base * BigToInt(Front(a)) + a[Len(a)]

RECURSIVE BigMulCarry(_, _, _)
BigMulCarry(a, n, carry) ==
    IF a = <<>> THEN BigFromInt(carry)
    ELSE LET t == a[Len(a)] * n + carry
         IN  Append(BigMulCarry(Front(a), n, t \div Base), t % Base)

\* a * n, for a numeral a and an integer 0 <= n < 2^17
BigMul(a, n) == BigMulCarry(a, n, 0)

\* a > 0
BigPositive(a) == \E i \in 1..Len(a) : a[i] > 0

\* quotient (numeral) and remainder (integer) of a / d, for 0 < d < 2^17
RECURSIVE BigDivMod(_, _)
BigDivMod(a, d) ==
    IF a = <<>> THEN [quot |-> <<>>, rem |-> 0]
    ELSE LET p == BigDivMod(Front(a), d)
             t == Base * p.rem + a[Len(a)]
         IN  [quot |-> Append(p.quot, t \div d), rem |-> t % d]

\* quotient (integer) and remainder of a / (d1 * d2), by dividing twice
BigDivMod2(a, d1, d2) ==
    LET s1 == BigDivMod(a, d1)
        s2 == BigDivMod(s1.quot, d2)
    IN  [quot |-> BigToInt(s2.quot), rem |-> s2.rem * d1 + s1.rem]

\* a / (d1 * d2) rounded to the nearest integer, ties to even: Python's round()
RoundDiv(a, d1, d2) ==
    LET r == BigDivMod2(a, d1, d2)
    IN  IF 2 * r.rem > d1 * d2 \/ (2 * r.rem = d1 * d2 /\ r.quot % 2 = 1)
        THEN r.quot + 1 ELSE r.quot

\* a / (d1 * d2) rounded towards zero
FloorDiv(a, d1, d2) == BigDivMod2(a, d1, d2).quot

-----------------------------------------------------------------------------
(* Helpers of src/main.py *)

\* 0.45359237 in units of 10^-8, as the product of two factors so that a
\* division by it can be carried out in two steps
LBS_TO_KG_A == 6073
LBS_TO_KG_B == 7469
LBS_TO_KG == LBS_TO_KG_A * LBS_TO_KG_B
IN_TO_M == 254               \* 0.0254, in units of 10^-4

INF == 2147483647            \* float('inf'): above every bmi of the model

\* variant: Normal weight ends at 24.9, as in the comment of line 34
CATEGORY_BOUNDS_gap ==
    << [lo |-> 0,      hi |-> 185000, name |-> "Underweight",   color |-> "#60a5fa", emoji |-> "kite"],
       [lo |-> 185000, hi |-> 249000, name |-> "Normal weight", color |-> "#34d399", emoji |-> "avocado"],
       [lo |-> 250000, hi |-> 300000, name |-> "Overweight",    color |-> "#f59e0b", emoji |-> "honey"],
       [lo |-> 300000, hi |-> INF,    name |-> "Obesity",       color |-> "#ef4444", emoji |-> "cake"] >>

\* variant: the names of the second and third rows exchanged
CATEGORY_BOUNDS_swapped ==
    << [lo |-> 0,      hi |-> 185000, name |-> "Underweight",   color |-> "#60a5fa", emoji |-> "kite"],
       [lo |-> 185000, hi |-> 250000, name |-> "Overweight",    color |-> "#f59e0b", emoji |-> "honey"],
       [lo |-> 250000, hi |-> 300000, name |-> "Normal weight", color |-> "#34d399", emoji |-> "avocado"],
       [lo |-> 300000, hi |-> INF,    name |-> "Obesity",       color |-> "#ef4444", emoji |-> "cake"] >>

CATEGORY_BOUNDS ==
    << [lo |-> 0,      hi |-> 185000, name |-> "Underweight",   color |-> "#60a5fa", emoji |-> "kite"],
       [lo |-> 185000, hi |-> 250000, name |-> "Normal weight", color |-> "#34d399", emoji |-> "avocado"],
       [lo |-> 250000, hi |-> 300000, name |-> "Overweight",    color |-> "#f59e0b", emoji |-> "honey"],
       [lo |-> 300000, hi |-> INF,    name |-> "Obesity",       color |-> "#ef4444", emoji |-> "cake"] >>

UnknownCategory == [name |-> "Unknown", color |-> "#6b7280", emoji |-> "question"]

\* variant: no clamp of the total height
to_metric_noclamp(f, i, p) ==
    LET total_inches == (f * 12) + i
    IN  [height_m  |-> total_inches * IN_TO_M,
         weight_kg |-> BigMul(BigFromInt(LBS_TO_KG), p)]

\* variant: ten inches to the foot
to_metric_ten(f, i, p) ==
    LET total_inches == Max((f * 10) + i, 1)
    IN  [height_m  |-> total_inches * IN_TO_M,
         weight_kg |-> BigMul(BigFromInt(LBS_TO_KG), p)]

\* to_metric(feet, inches, lbs), lbs in ticks
to_metric(f, i, p) ==
    LET total_inches == Max((f * 12) + i, 1)
    IN  [height_m  |-> total_inches * IN_TO_M,
         weight_kg |-> BigMul(BigFromInt(LBS_TO_KG), p)]

ZeroDivisionError == -1

\* weight_kg / height_m^2 = w / (LBS_SCALE * h^2) in the model's units, since
\* IN_TO_M^2 and LBS_TO_KG share the unit 10^-8; round(bmi, 1) is the nearest tenth.
calculate_bmi(height_m, weight_kg) ==
    IF height_m = 0 THEN ZeroDivisionError
    ELSE RoundDiv(BigMul(weight_kg, 10 \div LBS_SCALE), height_m, height_m)
           * (BMI_SCALE \div 10)

\* the unrounded quotient, truncated to 1/BMI_SCALE
exact_bmi(height_m, weight_kg) ==
    FloorDiv(BigMul(weight_kg, BMI_SCALE \div LBS_SCALE), height_m, height_m)

RECURSIVE ScanBounds(_, _, _)
ScanBounds(rows, k, b) ==
    IF k > Len(rows) THEN UnknownCategory
    ELSE IF rows[k].lo <= b /\ b < rows[k].hi
         THEN [name |-> rows[k].name, color |-> rows[k].color, emoji |-> rows[k].emoji]
         ELSE ScanBounds(rows, k + 1, b)

RECURSIVE ScanBoundsUpper(_, _, _)
ScanBoundsUpper(rows, k, b) ==
    IF k > Len(rows) THEN UnknownCategory
    ELSE IF rows[k].lo <= b /\ b <= rows[k].hi
         THEN [name |-> rows[k].name, color |-> rows[k].color, emoji |-> rows[k].emoji]
         ELSE ScanBoundsUpper(rows, k + 1, b)

\* variant: upper-inclusive intervals
bmi_category_upper(b) == ScanBoundsUpper(CATEGORY_BOUNDS, 1, b)

\* first row with lo <= bmi < hi, else the fallback
bmi_category(b) == ScanBounds(CATEGORY_BOUNDS, 1, b)

\* variant: upper bound from 25 instead of 24.9
healthy_weight_range_lbs_25(height_m) ==
    LET h2 == BigFromInt(height_m * height_m)
    IN  [low  |-> RoundDiv(BigMul(h2, 185), 10 * LBS_TO_KG_A, LBS_TO_KG_B),
         high |-> RoundDiv(BigMul(h2, 250), 10 * LBS_TO_KG_A, LBS_TO_KG_B)]

\* variant: both bounds from 18.5
healthy_weight_range_lbs_same(height_m) ==
    LET h2 == BigFromInt(height_m * height_m)
    IN  [low  |-> RoundDiv(BigMul(h2, 185), 10 * LBS_TO_KG_A, LBS_TO_KG_B),
         high |-> RoundDiv(BigMul(h2, 185), 10 * LBS_TO_KG_A, LBS_TO_KG_B)]

\* 18.5 * h^2 / LBS_TO_KG and 24.9 * h^2 / LBS_TO_KG, rounded to whole pounds
healthy_weight_range_lbs(height_m) ==
    LET h2 == BigFromInt(height_m * height_m)
    IN  [low  |-> RoundDiv(BigMul(h2, 185), 10 * LBS_TO_KG_A, LBS_TO_KG_B),
         high |-> RoundDiv(BigMul(h2, 249), 10 * LBS_TO_KG_A, LBS_TO_KG_B)]

INSIGHTS ==
    [n \in {"Underweight", "Normal weight", "Overweight", "Obesity"} |->
        CASE n = "Underweight" ->
               [blurb |-> "under the typical range",
                tips  |-> <<"nutrient-dense add-ons", "resistance training", "discuss with a clinician">>]
          [] n = "Normal weight" ->
               [blurb |-> "generally healthy range",
                tips  |-> <<"steady activity mix", "sleep and fiber", "annual wellness checks">>]
          [] n = "Overweight" ->
               [blurb |-> "above the typical range",
                tips  |-> <<"small durable adjustments", "strength training", "track added sugars">>]
          [] n = "Obesity" ->
               [blurb |-> "range associated with higher health risks",
                tips  |-> <<"nutrition tweaks and walking", "discuss options with your clinician", "habit stacking">>]]

NoCategory == [name |-> "", color |-> "", emoji |-> ""]
NoInfo == [blurb |-> "", tips |-> <<>>]

-----------------------------------------------------------------------------
(* The page: three number inputs and the Calculate button *)

NoResult ==
    /\ h_m' = 0 /\ w_kg' = <<>> /\ bmi' = 0 /\ cat' = NoCategory
    /\ low_w' = 0 /\ high_w' = 0 /\ info' = NoInfo /\ err' = "none"

Init ==
    /\ feet = DefaultFeet
    /\ inches = DefaultInches
    /\ lbs = DefaultLbs * LBS_SCALE
    /\ pc = "idle"
    /\ h_m = 0 /\ w_kg = <<>> /\ bmi = 0 /\ cat = NoCategory
    /\ low_w = 0 /\ high_w = 0 /\ info = NoInfo /\ err = "none"
    /\ bmi2 = 0 /\ cat2 = NoCategory

\* A widget edit reruns the script with the button unpressed: the else
\* branch replaces the result by the prompt.
ChangeFeet ==
    /\ \E v \in MinFeet..MaxFeet : v # feet /\ feet' = v
    /\ pc' = "idle"
    /\ NoResult
    /\ UNCHANGED <<inches, lbs, bmi2, cat2>>

ChangeInches ==
    /\ \E v \in 0..MaxInches : v # inches /\ inches' = v
    /\ pc' = "idle"
    /\ NoResult
    /\ UNCHANGED <<feet, lbs, bmi2, cat2>>

\* the pounds widget moves in steps of 0.5 lb, never below its minimum
ChangeLbs ==
    /\ \E v \in {lbs - 1, lbs + 1} :
          /\ v >= MinLbs * LBS_SCALE
          /\ v <= MaxLbs * LBS_SCALE
          /\ lbs' = v
    /\ pc' = "idle"
    /\ NoResult
    /\ UNCHANGED <<feet, inches, bmi2, cat2>>

\* variant: the category taken from the unrounded quotient
Calculate_exactcat ==
    LET m == to_metric(feet, inches, lbs)
        b == calculate_bmi(m.height_m, m.weight_kg)
        c == bmi_category(exact_bmi(m.height_m, m.weight_kg))
        r == healthy_weight_range_lbs(m.height_m)
    IN  /\ h_m' = m.height_m /\ w_kg' = m.weight_kg
        /\ bmi' = b /\ cat' = c /\ low_w' = r.low /\ high_w' = r.high
        /\ info' = INSIGHTS[c.name] /\ err' = "none" /\ pc' = "result"
        /\ UNCHANGED <<feet, inches, lbs, bmi2, cat2>>

\* the button's handler, lines 126-187
Calculate ==
    LET m == to_metric(feet, inches, lbs)
        b == calculate_bmi(m.height_m, m.weight_kg)
    IN  /\ h_m' = m.height_m /\ w_kg' = m.weight_kg
        /\ IF b = ZeroDivisionError
           THEN /\ bmi' = 0 /\ cat' = NoCategory /\ low_w' = 0 /\ high_w' = 0
                /\ info' = NoInfo /\ err' = "ZeroDivisionError" /\ pc' = "error"
           ELSE LET c == bmi_category(b)
                    r == healthy_weight_range_lbs(m.height_m)
                IN  /\ bmi' = b /\ cat' = c
                    /\ low_w' = r.low /\ high_w' = r.high
                    /\ IF c.name \in DOMAIN INSIGHTS
                       THEN info' = INSIGHTS[c.name] /\ err' = "none" /\ pc' = "result"
                       ELSE info' = NoInfo /\ err' = "KeyError" /\ pc' = "error"
        /\ UNCHANGED <<feet, inches, lbs, bmi2, cat2>>

Next == ChangeFeet \/ ChangeInches \/ ChangeLbs \/ Calculate

Spec == Init /\ [][Next]_vars

-----------------------------------------------------------------------------
(* The helpers called one after the other on any arguments they accept:    *)
(* feet >= 0, inches in 0..11, pounds > 0                                  *)

EngineInit ==
    /\ feet \in 0..MaxEngineFeet
    /\ inches \in 0..MaxInches
    /\ lbs \in 1..(MaxEngineLbs * LBS_SCALE)
    /\ pc = "args"
    /\ h_m = 0 /\ w_kg = <<>> /\ bmi = 0 /\ cat = NoCategory
    /\ low_w = 0 /\ high_w = 0 /\ info = NoInfo /\ err = "none"
    /\ bmi2 = 0 /\ cat2 = NoCategory

CallToMetric ==
    /\ pc = "args"
    /\ LET m == to_metric(feet, inches, lbs)
       IN  h_m' = m.height_m /\ w_kg' = m.weight_kg
    /\ pc' = "metric"
    /\ UNCHANGED <<feet, inches, lbs, bmi, cat, low_w, high_w, info, err, bmi2, cat2>>

CallCalculateBmi ==
    /\ pc = "metric"
    /\ LET b == calculate_bmi(h_m, w_kg)
       IN  IF b = ZeroDivisionError
           THEN bmi' = 0 /\ err' = "ZeroDivisionError" /\ pc' = "error"
           ELSE bmi' = b /\ err' = "none" /\ pc' = "bmi"
    /\ UNCHANGED <<feet, inches, lbs, h_m, w_kg, cat, low_w, high_w, info, bmi2, cat2>>

CallBmiCategory ==
    /\ pc = "bmi"
    /\ cat' = bmi_category(bmi)
    /\ pc' = "category"
    /\ UNCHANGED <<feet, inches, lbs, h_m, w_kg, bmi, low_w, high_w, info, err, bmi2, cat2>>

CallHealthyRange ==
    /\ pc = "category"
    /\ LET r == healthy_weight_range_lbs(h_m)
       IN  low_w' = r.low /\ high_w' = r.high
    /\ pc' = "range"
    /\ UNCHANGED <<feet, inches, lbs, h_m, w_kg, bmi, cat, info, err, bmi2, cat2>>

EngineNext == CallToMetric \/ CallCalculateBmi \/ CallBmiCategory \/ CallHealthyRange

EngineSpec == EngineInit /\ [][EngineNext]_vars

-----------------------------------------------------------------------------
(* bmi_category on two arbitrary non-negative values: every half unit up   *)
(* to MaxProbe / 2 and its two neighbours at 1/BMI_SCALE                   *)

Probes ==
    {v \in {n * (BMI_SCALE \div 2) + d : n \in 0..MaxProbe, d \in {-1, 0, 1}} : v >= 0}

ClassifyInit ==
    /\ bmi \in Probes
    /\ bmi2 \in Probes
    /\ cat = NoCategory /\ cat2 = NoCategory
    /\ pc = "probe"
    /\ feet = 0 /\ inches = 0 /\ lbs = 0
    /\ h_m = 0 /\ w_kg = <<>>
    /\ low_w = 0 /\ high_w = 0 /\ info = NoInfo /\ err = "none"

ClassifyFirst ==
    /\ cat = NoCategory
    /\ cat' = bmi_category(bmi)
    /\ UNCHANGED <<feet, inches, lbs, pc, h_m, w_kg, bmi, low_w, high_w, info, err, bmi2, cat2>>

ClassifySecond ==
    /\ cat2 = NoCategory
    /\ cat2' = bmi_category(bmi2)
    /\ UNCHANGED <<feet, inches, lbs, pc, h_m, w_kg, bmi, cat, low_w, high_w, info, err, bmi2>>

ClassifyNext == ClassifyFirst \/ ClassifySecond

ClassifySpec == ClassifyInit /\ [][ClassifyNext]_vars

-----------------------------------------------------------------------------
(* Properties *)

CategoryNames == {"Underweight", "Normal weight", "Overweight", "Obesity"}

CategoryIndex(n) ==
    CASE n = "Underweight" -> 0
      [] n = "Normal weight" -> 1
      [] n = "Overweight" -> 2
      [] n = "Obesity" -> 3
      [] OTHER -> 4

\* rows of CATEGORY_BOUNDS whose interval holds b
MatchingRows(b) ==
    {k \in 1..Len(CATEGORY_BOUNDS) :
        CATEGORY_BOUNDS[k].lo <= b /\ b < CATEGORY_BOUNDS[k].hi}

TotalInches == Max(feet * 12 + inches, 1)

\* C1: for every BMI >= 0 exactly one row of CATEGORY_BOUNDS satisfies
\* lo <= bmi < hi, and bmi_category returns one of the four categories,
\* never the Unknown fallback.
C1_Partition ==
    /\ cat # NoCategory =>
          /\ bmi >= 0
          /\ Cardinality(MatchingRows(bmi)) = 1
          /\ cat.name \in CategoryNames
    /\ cat2 # NoCategory =>
          /\ bmi2 >= 0
          /\ Cardinality(MatchingRows(bmi2)) = 1
          /\ cat2.name \in CategoryNames

C1_Witness ==
    /\ bmi = 249999 /\ cat.name = "Normal weight"
    /\ bmi2 = 0 /\ cat2.name = "Underweight"

\* C2: boundary values belong to the higher category: 18.5 and 24.9999 are
\* Normal weight, 25.0 and 29.9999 are Overweight, 30.0 is Obesity.
C2_Boundaries ==
    cat # NoCategory =>
        /\ bmi = 185000 => cat.name = "Normal weight"
        /\ bmi = 249999 => cat.name = "Normal weight"
        /\ bmi = 250000 => cat.name = "Overweight"
        /\ bmi = 299999 => cat.name = "Overweight"
        /\ bmi = 300000 => cat.name = "Obesity"

C2_Witness ==
    /\ bmi = 250000 /\ cat.name = "Overweight"
    /\ bmi2 = 300000 /\ cat2.name = "Obesity"

\* C3: bmi_category is monotonic: for bmi1 < bmi2 the index of the category
\* of bmi1 is never greater than the index of the category of bmi2.
C3_Monotonic ==
    (cat # NoCategory /\ cat2 # NoCategory /\ bmi < bmi2) =>
        CategoryIndex(cat.name) <= CategoryIndex(cat2.name)

C3_Witness ==
    /\ bmi = 249999 /\ bmi2 = 250000
    /\ cat.name = "Normal weight" /\ cat2.name = "Overweight"

\* C4: for every input the form admits the category computed by the handler
\* is a key of INSIGHTS: the lookup never fails and Unknown is never reached.
C4_LookupNeverFails ==
    /\ pc # "error"
    /\ err = "none"
    /\ pc = "result" =>
          /\ cat.name \in DOMAIN INSIGHTS
          /\ cat.name # "Unknown"
          /\ info = INSIGHTS[cat.name]

C4_Witness ==
    /\ pc = "result"
    /\ cat.name = "Underweight"
    /\ info.blurb = "under the typical range"
    /\ Len(info.tips) = 3

\* C5 as stated: healthy_weight_range_lbs returns low_pounds < high_pounds for
\* every height to_metric can produce, the clamped 1 inch included.
C5_Original ==
    pc = "range" => low_w < high_w

\* C5: healthy_weight_range_lbs returns low_pounds < high_pounds for every
\* height of at least 9 inches that to_metric produces.
C5_RangeOrdered ==
    (pc = "range" /\ h_m >= 9 * IN_TO_M) => low_w < high_w

C5_Witness ==
    /\ pc = "range"
    /\ h_m = 9 * IN_TO_M
    /\ low_w = 2 /\ high_w = 3

\* C6: for feet >= 0 and inches in 0..11, to_metric returns
\* height_m = max(feet*12 + inches, 1) * 0.0254 > 0 and, for pounds > 0,
\* weight_kg > 0, so calculate_bmi after to_metric never divides by zero.
C6_NoZeroDivision ==
    /\ pc # "error"
    /\ err = "none"
    /\ pc \in {"metric", "bmi", "category", "range"} =>
          /\ h_m = TotalInches * IN_TO_M
          /\ h_m > 0
          /\ BigPositive(w_kg)
    /\ pc \in {"bmi", "category", "range"} => bmi # ZeroDivisionError

C6_Witness ==
    /\ feet = 0 /\ inches = 0
    /\ pc = "bmi"
    /\ h_m = IN_TO_M
    /\ bmi > 0

\* C7 as stated: feet=5, inches=7, pounds=165 gives height_m 1.7018, weight_kg
\* about 74.8427, BMI 25.8, Overweight and a healthy range of 123 to 166 lb.
C7_Original ==
    (pc = "result" /\ feet = 5 /\ inches = 7 /\ lbs = 165 * LBS_SCALE) =>
        /\ h_m = 17018
        /\ RoundDiv(w_kg, LBS_SCALE * 100, 100) = 748427
        /\ bmi = 258000
        /\ cat.name = "Overweight"
        /\ low_w = 123 /\ high_w = 166

\* C7: feet=5, inches=7, pounds=165 gives height_m 1.7018, weight_kg about
\* 74.8427, BMI 25.8, Overweight and a healthy range of 118 to 159 lb.
C7_Example ==
    (pc = "result" /\ feet = 5 /\ inches = 7 /\ lbs = 165 * LBS_SCALE) =>
        /\ h_m = 17018
        /\ RoundDiv(w_kg, LBS_SCALE * 100, 100) = 748427
        /\ bmi = 258000
        /\ cat.name = "Overweight"
        /\ low_w = 118 /\ high_w = 159

C7_Witness ==
    /\ pc = "result" /\ feet = 5 /\ inches = 7 /\ lbs = 165 * LBS_SCALE
    /\ bmi = 258000 /\ low_w = 118 /\ high_w = 159

\* C8 as stated: feet=5, inches=0, pounds=110 gives height_m 1.27, weight_kg
\* about 49.895, BMI 30.9 and Obesity.
C8_Original ==
    (pc = "result" /\ feet = 5 /\ inches = 0 /\ lbs = 110 * LBS_SCALE) =>
        /\ h_m = 12700
        /\ RoundDiv(w_kg, LBS_SCALE * 1000, 100) = 49895
        /\ bmi = 309000
        /\ cat.name = "Obesity"

\* C8: feet=5, inches=0, pounds=110 gives height_m 1.524, weight_kg about
\* 49.895, BMI 21.5 and Normal weight.
C8_Example ==
    (pc = "result" /\ feet = 5 /\ inches = 0 /\ lbs = 110 * LBS_SCALE) =>
        /\ h_m = 15240
        /\ RoundDiv(w_kg, LBS_SCALE * 1000, 100) = 49895
        /\ bmi = 215000
        /\ cat.name = "Normal weight"

C8_Witness ==
    /\ pc = "result" /\ feet = 5 /\ inches = 0 /\ lbs = 110 * LBS_SCALE
    /\ h_m = 15240 /\ bmi = 215000 /\ cat.name = "Normal weight"

\* the category the pipeline gives p whole pounds at the current height
CategoryOfPounds(p) ==
    LET m == to_metric(feet, inches, p * LBS_SCALE)
    IN  bmi_category(calculate_bmi(m.height_m, m.weight_kg)).name

\* C9: for every height the form admits, both ends of the healthy weight
\* range, fed back through to_metric, calculate_bmi and bmi_category at that
\* height, are classified Normal weight.
C9_RangeIsNormal ==
    pc = "result" =>
        /\ CategoryOfPounds(low_w) = "Normal weight"
        /\ CategoryOfPounds(high_w) = "Normal weight"

\* C10: the category is that of the BMI rounded to 1 decimal: the displayed
\* BMI is a whole number of tenths and lies in the half-open interval of the
\* displayed category, also when the unrounded quotient lies in the interval
\* below.
C10_DisplayedInInterval ==
    pc = "result" =>
        /\ bmi % (BMI_SCALE \div 10) = 0
        /\ \E k \in 1..Len(CATEGORY_BOUNDS) :
              /\ CATEGORY_BOUNDS[k].name = cat.name
              /\ CATEGORY_BOUNDS[k].lo <= bmi
              /\ bmi < CATEGORY_BOUNDS[k].hi

C10_Witness ==
    /\ pc = "result"
    /\ exact_bmi(h_m, w_kg) >= 249500
    /\ exact_bmi(h_m, w_kg) < 250000
    /\ bmi = 250000
    /\ cat.name = "Overweight"

====
